---- MODULE Spec2Model ----
(***************************************************************************)
(* Model of the wechatferry client layer (src/src/wechatferry/mod.rs and   *)
(* loader.rs): the process-wide state behind its locks, the lifecycle      *)
(* operations init/uninit, the command channel, the enable/disable listen  *)
(* operations and the listener thread.  Caller threads run the public      *)
(* operations step by step; a step boundary is placed at every lock        *)
(* acquisition that can block while another lock is held, and wherever the *)
(* code releases a lock before it goes on.                                 *)
(***************************************************************************)
EXTENDS Integers, Sequences, FiniteSets, TLC

\* ------------------------------------------------------------------ bounds
MaxCallers == 2
MaxListeners == 2
MaxCalls == 5
MaxMsgs == 1
MaxFrames == 3
MaxEmitters == 2
MaxCallbacks == 2
MaxEvents == 3

\* --------------------------------------------------------------- constants
U16 == 65536
NoThread == 0
NoSocket == -1
NoCallback == 0

NoArg == [port |-> 0, debug |-> FALSE, auto_clean |-> FALSE]
NoRet == [who |-> NoThread, op |-> "none", res |-> "none"]

Callers == 1..MaxCallers
Listeners == 1..MaxListeners
Emitters == 1..MaxEmitters
Callbacks == 1..MaxCallbacks
PortInputs == {0, 1, 65535}

\* what a received frame may be: a response carrying a WxMsg, a response with
\* another payload, bytes that do not decode; and two distinguishable contents
FrameKinds == {"wxmsg", "other", "malformed"}
Payloads == {"a", "b"}
Frames == [kind : FrameKinds, body : Payloads]

EventKinds == {"SdkDllLoaded", "SdkInited", "SdkDestroyed", "CmdSocketConnected",
               "CmdSocketDisconnected", "MsgSocketConnected",
               "MsgSocketDisconnected", "MsgReceived"}

VARIABLES
    loaded,      \* DLL_LOADED
    sdkLib,      \* SDK_LIB: "unset", or the library stored in the cell: "good"
                 \* when it has both symbols, "no_symbol" when it lacks one
    nLoad,       \* libraries loaded by Library::new so far
    cmdPort,     \* CMD_PORT
    cmdSocket,   \* CMD_SOCKET: NoSocket, or the port the stored socket dialled
    msgPort,     \* MSG_PORT
    portLock,    \* holder of the CMD_PORT mutex
    sockLock,    \* holder of the CMD_SOCKET mutex
    msgLock,     \* holder of the MSG_PORT mutex
    recvGuard,   \* holder of the MSG_RECEIVING mutex (a listener)
    pc,          \* position of each caller thread
    op,          \* public operation each caller thread is running
    arg,         \* what the running operation carries: init's arguments, or the
                 \* port value read by connect_cmd_socket / enable_listen
    ret,         \* the latest return (thread, operation, result) until the next call
    lpc,         \* position of each listener thread
    lport,       \* port argument of each listener thread
    pending,     \* requests sent on the stored command socket, not yet answered
    ev,          \* number of send_event calls per event kind
    nInit,       \* calls of the native WxInitSDK entry point
    nDestroy,    \* calls of the native WxDestroySDK entry point
    liveAuto,    \* the auto_clean flag of the CleanupHandler returned by the init
                 \* that started the session now live (FALSE with no session)
    sdkUp,       \* the native SDK is initialised: WxInitSDK returned zero and
                 \* WxDestroySDK has not been called since
    nCalls,      \* public operations called so far
    rx,          \* frames the listener received, in order (where recorded)
    msgs,        \* payloads of the MsgReceived events raised, in order (where recorded)
    handles,     \* CleanupHandler values the client holds, per auto_clean flag
    threads,     \* number of threads the client calls from (src/main.rs: one)
    slot,        \* EVENT_CALLBACK: the registered callback, or NoCallback
    lastReg,     \* what the last returned register/unregister call asked for
    dpc,         \* per emitting thread: its position inside send_event
    got,         \* per emitting thread: the callback send_event cloned from the slot
    cbLock,      \* per callback: the thread holding the callback's own mutex
    invoked,     \* per callback: number of times it was invoked
    nSent,       \* calls of send_event so far
    lastCall,    \* the latest invocation: the callback invoked and the content
                 \* of the slot at that moment
    stopReq      \* listeners that were in their receive loop when a disable_listen
                 \* returned true

vars == <<loaded, cmdPort, cmdSocket, msgPort, portLock, sockLock, msgLock, recvGuard,
          pc, op, arg, ret, lpc, lport, pending, ev, nInit, nDestroy, nCalls, threads, stopReq,
          handles, rx, msgs, sdkUp, liveAuto, sdkLib, nLoad,
          slot, lastReg, dpc, got, cbLock, invoked, nSent, lastCall>>

\* the state of loader.rs
loaderVars == <<loaded, sdkLib, nLoad>>

\* the callback slot and the dispatches of send_event
callbackVars == <<slot, lastReg, dpc, got, cbLock, invoked, nSent, lastCall>>

\* everything but the caller threads' own positions
shared == <<loaderVars, callbackVars, cmdPort, cmdSocket, msgPort, portLock, sockLock,
            msgLock, recvGuard, lpc, lport, pending, ev, nInit, nDestroy, sdkUp,
            liveAuto, stopReq>>

Init ==
    /\ loaded = FALSE
    /\ slot = NoCallback
    /\ lastReg = NoCallback
    /\ dpc = [e \in Emitters |-> "idle"]
    /\ got = [e \in Emitters |-> NoCallback]
    /\ cbLock = [c \in Callbacks |-> NoThread]
    /\ invoked = [c \in Callbacks |-> 0]
    /\ nSent = 0
    /\ lastCall = [cb |-> NoCallback, slot |-> NoCallback]
    /\ sdkLib = "unset"
    /\ nLoad = 0
    /\ cmdPort = 0
    /\ cmdSocket = NoSocket
    /\ msgPort = 0
    /\ portLock = NoThread
    /\ sockLock = NoThread
    /\ msgLock = NoThread
    /\ recvGuard = NoThread
    /\ pc = [t \in Callers |-> "idle"]
    /\ op = [t \in Callers |-> "none"]
    /\ arg = [t \in Callers |-> NoArg]
    /\ ret = NoRet
    /\ lpc = [l \in Listeners |-> "unborn"]
    /\ lport = [l \in Listeners |-> 0]
    /\ pending = << >>
    /\ ev = [k \in EventKinds |-> 0]
    /\ nInit = 0
    /\ nDestroy = 0
    /\ sdkUp = FALSE
    /\ liveAuto = FALSE
    /\ nCalls = 0
    /\ threads \in Callers
    /\ stopReq = {}
    /\ handles = [a \in BOOLEAN |-> 0]
    /\ rx = << >>
    /\ msgs = << >>

\* ----------------------------------------------------------------- helpers

\* send_event: one more event of kind k handed to the event bus
SendEvent(e, k) == [e EXCEPT ![k] = @ + 1]

\* parking_lot Mutex::lock(): proceeds only when nobody holds the mutex
LockFree(l) == l = NoThread

\* calls the model follows: a client that calls from one thread is followed
\* for MaxCalls calls, and for one call less per further thread it uses
CallBudget == MaxCalls + 1 - threads

\* a caller thread calls public operation o: the call and the operation's first
\* step (up to its first lock acquisition) are one step of the thread
\* (idle threads are interchangeable, so the call is given to the first of them)
Begin(t, o) ==
    /\ pc[t] = "idle"
    /\ \A u \in Callers : u < t => pc[u] # "idle"
    /\ t <= threads
    /\ nCalls < CallBudget
    /\ nCalls' = nCalls + 1
    /\ UNCHANGED threads

\* a caller thread inside an operation takes the step at position p
At(t, p) ==
    /\ pc[t] = p
    /\ UNCHANGED <<nCalls, threads>>

\* the thread's operation o returns r to its caller
Return(t, o, r) ==
    /\ pc' = [pc EXCEPT ![t] = "idle"]
    /\ arg' = [arg EXCEPT ![t] = NoArg]
    /\ op' = [op EXCEPT ![t] = "none"]
    /\ ret' = [who |-> t, op |-> o, res |-> r]

\* the thread moves on to position p of its operation o, carrying port value v
\* (a thread that was idle has just made the call)
Goto(t, o, p, v) ==
    /\ pc' = [pc EXCEPT ![t] = p]
    /\ arg' = [arg EXCEPT ![t].port = v]
    /\ op' = [op EXCEPT ![t] = o]
    /\ ret' = IF pc[t] = "idle" THEN NoRet ELSE ret

\* listener threads not yet spawned
Unborn == {l \in Listeners : lpc[l] = "unborn"}

\* ------------------------------------------------------- predicates of the code

\* init: `if *cmd_port != 0 { return Err("wcf already inited") }`
\* load_sdk_dll: what Library::new and the symbol lookups find
LibraryOutcomes == {"no_library", "no_symbol", "good"}

\* load_sdk_dll: `if *loaded`
AlreadyLoadedNever(l) == FALSE
AlreadyLoaded(l) == l

\* results of the native WxInitSDK: zero, or a non-zero error code
InitSdkResults == {0, 1}

\* init: `if init_sdk_result != 0`
InitSdkFailedNever(result) == FALSE
InitSdkFailed(result) == result # 0

AlreadyInitedOff(p) == FALSE
AlreadyInited(p) == p # 0

\* uninit: `if *cmd_port == 0 { return; }`
NoNeedToUninitOff(p) == FALSE
NoNeedToUninit(p) == p = 0

\* exchange_message_via_cmd_socket: `if cmd_socket_option.is_none()`
SocketAbsentOff(s) == FALSE
SocketAbsent(s) == s = NoSocket

\* disconnect_cmd_socket: `CMD_SOCKET.lock().take().is_some()`
TookSocketAlways(s) == TRUE
TookSocket(s) == s # NoSocket

\* exchange_message_via_cmd_socket: `CMD_SOCKET.lock()` held over send and recv
SockLockFreeAlways == TRUE
SockLockFree == LockFree(sockLock)

\* recv_msg_thread: `MSG_RECEIVING.try_lock()` yields the guard only when free
TryLockAlways(g) == TRUE
TryLock(g) == g = NoThread

\* enable_listen: `if *msg_port == 0 { ... }` (the command is sent only then)
ListenPortUnsetAlways(mp) == TRUE
ListenPortUnset(mp) == mp = 0

\* disable_listen: `if *msg_port == 0 { return Ok(false); }`
NoNeedToDisableOff(mp) == FALSE
NoNeedToDisable(mp) == mp = 0

\* recv_msg_thread, on a timeout: `if msg_port == 0 { break; }`
DisableRequestedNever(mp) == FALSE
DisableRequested(mp) == mp = 0

\* enable_listen: `*msg_port = cmd_port + 1` on a u16: the sum wraps in a build
\* without overflow checks and panics in a build with them (wrapped = FALSE)
Overflows(cp) == cp + 1 >= U16
WrapAdd1(cp) == (cp + 1) % U16

\* outcomes of one receive on a socket
RecvOutcomes == {"some", "none", "malformed", "timeout", "error"}
TransportFailure(o) == o \in {"timeout", "error"}


\* ------------------------------------------------------------ init / uninit

\* init(p, d, a) goes on from load_sdk_dll to `CMD_PORT.lock()`
InitGoesOn(t, p, d, a) ==
    /\ pc' = [pc EXCEPT ![t] = "init_lock"]
    /\ arg' = [arg EXCEPT ![t] = [port |-> p, debug |-> d, auto_clean |-> a]]
    /\ op' = [op EXCEPT ![t] = "init"]
    /\ ret' = NoRet

\* init(p, d, a), first part: loader::load_sdk_dll(), all under the DLL_LOADED
\* mutex, and the SdkDllLoaded event of the call that did the load. Without
\* the flag set, Library::new either fails or loads the library; SDK_LIB.set
\* fails ("failed to save") when an earlier call left a library in the cell;
\* a symbol that is not found fails the call with the library left in the
\* cell; otherwise the cells are filled and the flag is set
InitLoad(t, p, d, a) ==
    /\ Begin(t, "init")
    /\ IF AlreadyLoaded(loaded)
       THEN /\ InitGoesOn(t, p, d, a)
            /\ UNCHANGED <<loaded, sdkLib, nLoad, ev>>
       ELSE \E found \in LibraryOutcomes :
              IF found = "no_library"
              THEN /\ Return(t, "init", "err_load")
                   /\ UNCHANGED <<loaded, sdkLib, nLoad, ev>>
              ELSE /\ nLoad' = nLoad + 1
                   /\ IF sdkLib # "unset"
                      THEN /\ Return(t, "init", "err_load")
                           /\ UNCHANGED <<loaded, sdkLib, ev>>
                      ELSE /\ sdkLib' = found
                           /\ IF found = "no_symbol"
                              THEN /\ Return(t, "init", "err_load")
                                   /\ UNCHANGED <<loaded, ev>>
                              ELSE /\ loaded' = TRUE
                                   /\ ev' = SendEvent(ev, "SdkDllLoaded")
                                   /\ InitGoesOn(t, p, d, a)
    /\ UNCHANGED <<callbackVars, cmdPort, cmdSocket, msgPort, portLock, sockLock,
                   msgLock, recvGuard, lpc, lport, pending, nInit, nDestroy, sdkUp,
                   liveAuto, stopReq, handles, rx, msgs>>

\* init, second part, all under the CMD_PORT mutex: the already-inited check,
\* the native init call (zero or non-zero result), the assignment of cmd_port
\* and the SdkInited event
InitLock(t) ==
    /\ At(t, "init_lock")
    /\ LockFree(portLock)
    /\ IF AlreadyInited(cmdPort)
       THEN /\ Return(t, "init", "err_already_inited")
            /\ UNCHANGED <<cmdPort, ev, nInit, handles, sdkUp, liveAuto>>
       ELSE /\ nInit' = nInit + 1
            /\ \E init_sdk_result \in InitSdkResults :
                 IF InitSdkFailed(init_sdk_result)
                 THEN /\ Return(t, "init", "err_init_failed")
                      /\ UNCHANGED <<cmdPort, ev, handles, sdkUp, liveAuto>>
                 ELSE /\ sdkUp' = (init_sdk_result = 0)
                      /\ liveAuto' = arg[t].auto_clean
                      /\ cmdPort' = arg[t].port
                      /\ ev' = SendEvent(ev, "SdkInited")
                      /\ handles' = [handles EXCEPT ![arg[t].auto_clean] = @ + 1]
                      /\ Return(t, "init", "ok")
    /\ UNCHANGED <<loaderVars, callbackVars, cmdSocket, msgPort, portLock, sockLock,
                   msgLock, recvGuard, lpc, lport, pending, nDestroy, stopReq, rx,
                   msgs>>

\* the operations that run the body of uninit: uninit called by the client, and
\* uninit called by CleanupHandler::drop
InUninit(o) == o \in {"uninit", "drop"}

\* uninit run by operation o: take the CMD_PORT mutex (kept until uninit
\* returns) and test cmd_port
UninitEnter(t, o) ==
    /\ LockFree(portLock)
    /\ IF NoNeedToUninit(cmdPort)
       THEN /\ Return(t, o, "ok")
            /\ UNCHANGED portLock
       ELSE /\ portLock' = t
            /\ Goto(t, o, "disc_take", 0)
    /\ UNCHANGED <<loaderVars, callbackVars, cmdPort, cmdSocket, msgPort, sockLock,
                   msgLock, recvGuard, lpc, lport, pending, ev, nInit, nDestroy, sdkUp,
                   liveAuto, stopReq, rx, msgs>>

\* uninit called by the client
Uninit(t) ==
    /\ Begin(t, "uninit")
    /\ UninitEnter(t, "uninit")
    /\ UNCHANGED handles

\* CleanupHandler::drop: `if self.auto_clean`
AutoCleanAlways(a) == TRUE
AutoClean(a) == a

\* CleanupHandler::drop for a handle whose flag is a: the handle is gone, and
\* uninit() runs when the flag is set
Drop(t, a) ==
    /\ Begin(t, "drop")
    /\ handles[a] > 0
    /\ handles' = [handles EXCEPT ![a] = @ - 1]
    /\ IF AutoClean(a)
       THEN UninitEnter(t, "drop")
       ELSE /\ Return(t, "drop", "ok")
            /\ UNCHANGED <<shared, rx, msgs>>

\* uninit, last part: wx_destroy_sdk (its result only logged), cmd_port = 0,
\* the SdkDestroyed event, and the CMD_PORT mutex released on return
UninitDestroy(t) ==
    /\ At(t, "destroy")
    /\ nDestroy' = nDestroy + 1
    /\ sdkUp' = FALSE
    /\ liveAuto' = FALSE
    /\ cmdPort' = 0
    /\ ev' = SendEvent(ev, "SdkDestroyed")
    /\ portLock' = NoThread
    /\ Return(t, op[t], "ok")
    /\ UNCHANGED <<loaderVars, callbackVars, cmdSocket, msgPort, sockLock, msgLock,
                   recvGuard, lpc, lport, pending, nInit, stopReq, handles, rx, msgs>>

\* ---------------------------------------------------------- command channel

\* connect_cmd_socket, first statement: `let cmd_port = *CMD_PORT.lock();`
\* (the mutex is released at the end of the statement)
ConnectCmdSocket(t) ==
    /\ Begin(t, "connect")
    /\ LockFree(portLock)
    /\ IF cmdPort = 0
       THEN Return(t, "connect", "err_not_inited")
       ELSE Goto(t, "connect", "conn_lock", cmdPort)
    /\ UNCHANGED <<shared, handles, rx, msgs>>

\* connect_cmd_socket, the rest, under the CMD_SOCKET mutex: the
\* already-connected check, connect_socket(cmd_port) (which may fail), the
\* CmdSocketConnected event
ConnLock(t) ==
    /\ At(t, "conn_lock")
    /\ SockLockFree
    /\ IF cmdSocket # NoSocket
       THEN /\ Return(t, "connect", "err_already_connected")
            /\ UNCHANGED <<cmdSocket, pending, ev>>
       ELSE \/ /\ cmdSocket' = arg[t].port
               /\ pending' = << >>
               /\ ev' = SendEvent(ev, "CmdSocketConnected")
               /\ Return(t, "connect", "ok")
            \/ /\ Return(t, "connect", "err_connect")
               /\ UNCHANGED <<cmdSocket, pending, ev>>
    /\ UNCHANGED <<loaderVars, callbackVars, cmdPort, msgPort, portLock, sockLock,
                   msgLock, recvGuard, lpc, lport, nInit, nDestroy, sdkUp, liveAuto,
                   stopReq, handles, rx, msgs>>

\* where operation o goes when disconnect_cmd_socket returns: on inside uninit
\* (to disable_listen), back to the caller otherwise
AfterDisconnect(t, o) ==
    IF InUninit(o) THEN Goto(t, o, "dl_lock", 0) ELSE Return(t, o, "ok")

\* disconnect_cmd_socket, first statement, run by operation o: take the socket
\* out of the slot under the CMD_SOCKET mutex, released at the end of the statement
DiscTake(t, o) ==
    /\ SockLockFree
    /\ cmdSocket' = NoSocket
    /\ pending' = << >>
    /\ IF TookSocket(cmdSocket)
       THEN Goto(t, o, "disc_event", 0)
       ELSE AfterDisconnect(t, o)
    /\ UNCHANGED <<loaderVars, callbackVars, cmdPort, msgPort, portLock, sockLock,
                   msgLock, recvGuard, lpc, lport, ev, nInit, nDestroy, sdkUp,
                   liveAuto, stopReq, handles, rx, msgs>>

\* disconnect_cmd_socket called by the user
DisconnectCmdSocket(t) ==
    /\ Begin(t, "disconnect")
    /\ DiscTake(t, "disconnect")

\* disconnect_cmd_socket called by uninit
UninitDisconnect(t) ==
    /\ At(t, "disc_take")
    /\ DiscTake(t, op[t])

\* disconnect_cmd_socket, second statement: the CmdSocketDisconnected event
DiscEvent(t) ==
    /\ At(t, "disc_event")
    /\ ev' = SendEvent(ev, "CmdSocketDisconnected")
    /\ AfterDisconnect(t, op[t])
    /\ UNCHANGED <<loaderVars, callbackVars, cmdPort, cmdSocket, msgPort, portLock,
                   sockLock, msgLock, recvGuard, lpc, lport, pending, nInit, nDestroy,
                   sdkUp, liveAuto, stopReq, handles, rx, msgs>>

\* listener threads inside the receive loop of recv_msg_thread
Receiving == {l \in Listeners : lpc[l] \in {"recv", "check"}}

\* what run_cmd's caller, operation o, does with its outcome r ("some"/"none":
\* a decoded response with/without payload; otherwise the error):
\*   enable_listen records msg_port = cmd_port + 1 and goes on to spawn;
\*   disable_listen resets msg_port and returns true;
\*   inside uninit the result of disable_listen is dropped and uninit goes on;
\*   a plain RPC wrapper returns.
\* enable_listen and disable_listen hold the MSG_PORT mutex over run_cmd and
\* release it here.
RunCmdReturn(t, o, r) ==
    CASE o = "enable" ->
            /\ msgLock' = NoThread
            /\ UNCHANGED stopReq
            /\ IF r = "some"
               THEN \E wrapped \in BOOLEAN :
                      IF Overflows(arg[t].port) /\ ~wrapped
                      THEN /\ pc' = [pc EXCEPT ![t] = "panicked"]
                           /\ UNCHANGED <<arg, op, ret, msgPort>>
                      ELSE /\ msgPort' = WrapAdd1(arg[t].port)
                           /\ Goto(t, o, "el_spawn", WrapAdd1(arg[t].port))
               ELSE /\ Return(t, o, IF r = "none" THEN "err_no_payload" ELSE r)
                    /\ UNCHANGED msgPort
      [] o = "disable" ->
            /\ msgLock' = NoThread
            /\ IF r = "some"
               THEN /\ msgPort' = 0
                    /\ stopReq' = stopReq \cup Receiving
                    /\ Return(t, o, "true")
               ELSE /\ Return(t, o, IF r = "none" THEN "err_no_payload" ELSE r)
                    /\ UNCHANGED <<msgPort, stopReq>>
      [] InUninit(o) ->
            /\ msgLock' = NoThread
            /\ IF r = "some"
               THEN /\ msgPort' = 0
                    /\ stopReq' = stopReq \cup Receiving
               ELSE UNCHANGED <<msgPort, stopReq>>
            /\ Goto(t, o, "destroy", 0)
      [] OTHER ->
            /\ Return(t, o, IF r \in {"some", "none"} THEN "ok" ELSE r)
            /\ UNCHANGED <<msgPort, msgLock, stopReq>>

\* exchange_message_via_cmd_socket up to socket.send, inside operation o: take
\* the CMD_SOCKET mutex, fail at once when no socket is stored, otherwise send
\* the request; a send error drops the socket, raises CmdSocketDisconnected
\* and fails
ExSend(t, o) ==
    /\ SockLockFree
    /\ IF SocketAbsent(cmdSocket)
       THEN /\ RunCmdReturn(t, o, "err_disconnected")
            /\ UNCHANGED <<cmdSocket, sockLock, pending, ev>>
       ELSE \/ /\ sockLock' = t
               /\ pending' = Append(pending, t)
               /\ Goto(t, o, "ex_recv", arg[t].port)
               /\ UNCHANGED <<cmdSocket, msgPort, msgLock, ev, stopReq>>
            \/ /\ cmdSocket' = NoSocket
               /\ pending' = << >>
               /\ ev' = SendEvent(ev, "CmdSocketDisconnected")
               /\ RunCmdReturn(t, o, "err_transport")
               /\ UNCHANGED sockLock
    /\ UNCHANGED <<loaderVars, callbackVars, cmdPort, portLock, recvGuard, lpc, lport,
                   nInit, nDestroy, sdkUp, liveAuto, handles, rx, msgs>>

\* any of the plain RPC wrappers (is_login, send_text, ...): run_cmd and a match
Rpc(t) ==
    /\ Begin(t, "rpc")
    /\ ExSend(t, "rpc")

\* run_cmd inside enable_listen, disable_listen or uninit
ExLock(t) ==
    /\ At(t, "ex_lock")
    /\ ExSend(t, op[t])

\* exchange_message_via_cmd_socket from socket.recv on, still under the mutex:
\* a received frame answers the oldest unanswered request on the connection;
\* a receive error or timeout drops the socket and raises CmdSocketDisconnected
ExRecv(t) ==
    /\ At(t, "ex_recv")
    /\ sockLock' = NoThread
    /\ \E o \in RecvOutcomes :
         IF TransportFailure(o)
         THEN /\ cmdSocket' = NoSocket
              /\ pending' = << >>
              /\ ev' = SendEvent(ev, "CmdSocketDisconnected")
              /\ RunCmdReturn(t, op[t], "err_transport")
         ELSE /\ pending' = IF pending = << >> THEN << >> ELSE Tail(pending)
              /\ RunCmdReturn(t, op[t], IF o = "malformed" THEN "err_decode" ELSE o)
              /\ UNCHANGED <<cmdSocket, ev>>
    /\ UNCHANGED <<loaderVars, callbackVars, cmdPort, portLock, recvGuard, lpc, lport,
                   nInit, nDestroy, sdkUp, liveAuto, handles, rx, msgs>>

\* ------------------------------------------------------ enable/disable listen

\* enable_listen: take the MSG_PORT mutex; with msg_port already set the block
\* only reads it (and releases), otherwise it goes on holding the mutex
EnableListen(t) ==
    /\ Begin(t, "enable")
    /\ Cardinality(Unborn) > Cardinality({u \in Callers : op[u] = "enable" /\ pc[u] # "idle"})
    /\ LockFree(msgLock)
    /\ IF ListenPortUnset(msgPort)
       THEN /\ msgLock' = t
            /\ Goto(t, "enable", "el_port", 0)
       ELSE /\ Goto(t, "enable", "el_spawn", msgPort)
            /\ UNCHANGED msgLock
    /\ UNCHANGED <<loaderVars, callbackVars, cmdPort, cmdSocket, msgPort, portLock,
                   sockLock, recvGuard, lpc, lport, pending, ev, nInit, nDestroy,
                   sdkUp, liveAuto, stopReq, handles, rx, msgs>>

\* enable_listen: `let cmd_port = *CMD_PORT.lock();` while holding MSG_PORT
ElPort(t) ==
    /\ At(t, "el_port")
    /\ LockFree(portLock)
    /\ IF cmdPort = 0
       THEN /\ msgLock' = NoThread
            /\ Return(t, "enable", "err_not_inited")
       ELSE /\ Goto(t, "enable", "ex_lock", cmdPort)
            /\ UNCHANGED msgLock
    /\ UNCHANGED <<loaderVars, callbackVars, cmdPort, cmdSocket, msgPort, portLock,
                   sockLock, recvGuard, lpc, lport, pending, ev, nInit, nDestroy,
                   sdkUp, liveAuto, stopReq, handles, rx, msgs>>

\* enable_listen: `std::thread::spawn(move || recv_msg_thread(msg_port))`
ElSpawn(t) ==
    /\ At(t, "el_spawn")
    /\ \E l \in Unborn :
         /\ \A k \in Unborn : l <= k
         /\ lpc' = [lpc EXCEPT ![l] = "start"]
         /\ lport' = [lport EXCEPT ![l] = arg[t].port]
    /\ Return(t, "enable", "ok")
    /\ UNCHANGED <<loaderVars, callbackVars, cmdPort, cmdSocket, msgPort, portLock,
                   sockLock, msgLock, recvGuard, pending, ev, nInit, nDestroy, sdkUp,
                   liveAuto, stopReq, handles, rx, msgs>>

\* disable_listen inside operation o: take the MSG_PORT mutex; nothing to do
\* when msg_port = 0 (inside uninit the Ok(false) is dropped and uninit goes on)
DlLock(t, o) ==
    /\ LockFree(msgLock)
    /\ IF NoNeedToDisable(msgPort)
       THEN /\ IF InUninit(o) THEN Goto(t, o, "destroy", 0) ELSE Return(t, o, "false")
            /\ UNCHANGED msgLock
       ELSE /\ msgLock' = t
            /\ Goto(t, o, "ex_lock", 0)
    /\ UNCHANGED <<loaderVars, callbackVars, cmdPort, cmdSocket, msgPort, portLock,
                   sockLock, recvGuard, lpc, lport, pending, ev, nInit, nDestroy,
                   sdkUp, liveAuto, stopReq, handles, rx, msgs>>

\* disable_listen called by the user
DisableListen(t) ==
    /\ Begin(t, "disable")
    /\ DlLock(t, "disable")

\* disable_listen called by uninit
UninitDisableListen(t) ==
    /\ At(t, "dl_lock")
    /\ DlLock(t, op[t])

\* ------------------------------------------------------------ listener thread

callerVars == <<pc, op, arg, ret, nCalls, threads>>

\* recv_msg_thread: MSG_RECEIVING.try_lock(); return when another thread has it
ListenerStart(l) ==
    /\ lpc[l] = "start"
    /\ IF TryLock(recvGuard)
       THEN /\ recvGuard' = l
            /\ lpc' = [lpc EXCEPT ![l] = "connect"]
       ELSE /\ lpc' = [lpc EXCEPT ![l] = "exit_busy"]
            /\ UNCHANGED recvGuard
    /\ UNCHANGED <<callerVars, loaderVars, callbackVars, cmdPort, cmdSocket, msgPort,
                   portLock, sockLock, msgLock, lport, pending, ev, nInit, nDestroy,
                   sdkUp, liveAuto, stopReq, handles, rx, msgs>>

\* recv_msg_thread: connect_socket(port); on failure return (dropping the
\* guard), on success raise MsgSocketConnected and enter the loop
ListenerConnect(l) ==
    /\ lpc[l] = "connect"
    /\ \/ /\ ev' = SendEvent(ev, "MsgSocketConnected")
          /\ lpc' = [lpc EXCEPT ![l] = "recv"]
          /\ UNCHANGED recvGuard
       \/ /\ lpc' = [lpc EXCEPT ![l] = "exit_noconn"]
          /\ recvGuard' = NoThread
          /\ UNCHANGED ev
    /\ UNCHANGED <<callerVars, loaderVars, callbackVars, cmdPort, cmdSocket, msgPort,
                   portLock, sockLock, msgLock, lport, pending, nInit, nDestroy, sdkUp,
                   liveAuto, stopReq, handles, rx, msgs>>

\* leaving the loop: socket.close(), the MsgSocketDisconnected event, and the
\* guard dropped at the end of the function
ListenerClose(l, how) ==
    /\ ev' = SendEvent(ev, "MsgSocketDisconnected")
    /\ lpc' = [lpc EXCEPT ![l] = how]
    /\ recvGuard' = NoThread

\* proto::Response::decode of a received frame: an error for malformed bytes,
\* otherwise the response with its payload variant and content
Decode(f) ==
    IF f.kind = "malformed"
    THEN [ok |-> FALSE, variant |-> "none", body |-> "none"]
    ELSE [ok |-> TRUE, variant |-> f.kind, body |-> f.body]

\* `if let Some(proto::response::Msg::Wxmsg(msg)) = response.msg`
IsWxmsgAny(r) == TRUE
IsWxmsg(r) == r.variant = "wxmsg"

\* the payloads of the MsgReceived events raised for one received frame
Delivered(f) ==
    LET r == Decode(f)
    IN  IF r.ok /\ IsWxmsg(r) THEN <<r.body>> ELSE << >>

\* one socket.recv() of the loop that returns frame f: a frame carrying a WxMsg
\* raises MsgReceived, any other frame and an undecodable one are skipped
ListenerRecvFrame(l, f) ==
    /\ lpc[l] = "recv"
    /\ ev' = IF Delivered(f) = << >> THEN ev ELSE SendEvent(ev, "MsgReceived")
    /\ UNCHANGED <<callerVars, loaderVars, callbackVars, cmdPort, cmdSocket, msgPort,
                   portLock, sockLock, msgLock, recvGuard, lpc, lport, pending, nInit,
                   nDestroy, sdkUp, liveAuto, stopReq, handles>>

\* one socket.recv() of the loop that returns an error: a timeout goes to read
\* MSG_PORT, any other error leaves the loop
ListenerRecvEnd(l) ==
    /\ lpc[l] = "recv"
    /\ \/ /\ lpc' = [lpc EXCEPT ![l] = "check"]
          /\ UNCHANGED <<recvGuard, ev>>
       \/ ListenerClose(l, "exit_error")
    /\ UNCHANGED <<callerVars, loaderVars, callbackVars, cmdPort, cmdSocket, msgPort,
                   portLock, sockLock, msgLock, lport, pending, nInit, nDestroy, sdkUp,
                   liveAuto, stopReq, handles, rx, msgs>>

\* one socket.recv() of the loop, the frames not recorded
ListenerRecv(l) ==
    \/ \E f \in Frames :
          /\ Delivered(f) # << >> => ev["MsgReceived"] < MaxMsgs
          /\ ListenerRecvFrame(l, f)
          /\ UNCHANGED <<rx, msgs>>
    \/ ListenerRecvEnd(l)

\* one socket.recv() of the loop that returns a frame, the frame and the
\* payloads of the events recorded
ListenerRecvLogged(l) ==
    \E f \in Frames :
        /\ Len(rx) < MaxFrames
        /\ ListenerRecvFrame(l, f)
        /\ rx' = Append(rx, f)
        /\ msgs' = msgs \o Delivered(f)

\* after a timeout: `let msg_port = *MSG_PORT.lock();` and the test for 0
ListenerCheck(l) ==
    /\ lpc[l] = "check"
    /\ LockFree(msgLock)
    /\ IF DisableRequested(msgPort)
       THEN ListenerClose(l, "exit_disabled")
       ELSE /\ lpc' = [lpc EXCEPT ![l] = "recv"]
            /\ UNCHANGED <<recvGuard, ev>>
    /\ UNCHANGED <<callerVars, loaderVars, callbackVars, cmdPort, cmdSocket, msgPort,
                   portLock, sockLock, msgLock, lport, pending, nInit, nDestroy, sdkUp,
                   liveAuto, stopReq, handles, rx, msgs>>

\* ------------------------------------------------------------- event callback

\* everything but the callback slot and the dispatches
processVars == <<loaderVars, cmdPort, cmdSocket, msgPort, portLock, sockLock, msgLock,
                 recvGuard, lpc, lport, pending, ev, nInit, nDestroy, sdkUp, liveAuto,
                 stopReq, callerVars, handles, rx, msgs>>

\* register_event_callback: `*EVENT_CALLBACK.lock() = Some(Arc::new(..))`
RegisteredFirstWins(old, callback) == IF old = NoCallback THEN callback ELSE old
Registered(old, callback) == callback

\* register_event_callback(c): one assignment under the EVENT_CALLBACK mutex
RegisterEventCallback(c) ==
    /\ slot' = Registered(slot, c)
    /\ lastReg' = c
    /\ UNCHANGED <<processVars, dpc, got, cbLock, invoked, nSent, lastCall>>

\* unregister_event_callback: `*EVENT_CALLBACK.lock() = None`
UnregisterEventCallback ==
    /\ slot' = NoCallback
    /\ lastReg' = NoCallback
    /\ UNCHANGED <<processVars, dpc, got, cbLock, invoked, nSent, lastCall>>

\* send_event on thread e, the match under the EVENT_CALLBACK mutex: return
\* with an empty slot, otherwise clone the Arc of the callback in the slot
SendEventRead(e) ==
    /\ dpc[e] = "idle"
    /\ nSent < MaxEvents
    /\ nSent' = nSent + 1
    /\ IF slot = NoCallback
       THEN UNCHANGED <<dpc, got>>
       ELSE /\ got' = [got EXCEPT ![e] = slot]
            /\ dpc' = [dpc EXCEPT ![e] = "got"]
    /\ UNCHANGED <<processVars, slot, lastReg, cbLock, invoked, lastCall>>

\* send_event on thread e, `arc_callback.lock()(event)`: with the slot's mutex
\* released, take the mutex of the cloned callback and call it
SendEventInvoke(e) ==
    /\ dpc[e] = "got"
    /\ LockFree(cbLock[got[e]])
    /\ cbLock' = [cbLock EXCEPT ![got[e]] = e]
    /\ invoked' = [invoked EXCEPT ![got[e]] = @ + 1]
    /\ lastCall' = [cb |-> got[e], slot |-> slot]
    /\ dpc' = [dpc EXCEPT ![e] = "in"]
    /\ UNCHANGED <<processVars, slot, lastReg, got, nSent>>

\* send_event on thread e: the callback returns, its mutex and the Arc are
\* dropped
SendEventReturn(e) ==
    /\ dpc[e] = "in"
    /\ cbLock' = [cbLock EXCEPT ![got[e]] = NoThread]
    /\ got' = [got EXCEPT ![e] = NoCallback]
    /\ dpc' = [dpc EXCEPT ![e] = "idle"]
    /\ UNCHANGED <<processVars, slot, lastReg, invoked, nSent, lastCall>>

\* ---------------------------------------------------------------- the system

Next ==
    \/ \E t \in Callers, p \in PortInputs, d \in BOOLEAN, a \in BOOLEAN : InitLoad(t, p, d, a)
    \/ \E t \in Callers : InitLock(t)
    \/ \E t \in Callers : Uninit(t)
    \/ \E t \in Callers, a \in BOOLEAN : Drop(t, a)
    \/ \E t \in Callers : UninitDisconnect(t)
    \/ \E t \in Callers : UninitDisableListen(t)
    \/ \E t \in Callers : UninitDestroy(t)
    \/ \E t \in Callers : ConnectCmdSocket(t)
    \/ \E t \in Callers : ConnLock(t)
    \/ \E t \in Callers : DisconnectCmdSocket(t)
    \/ \E t \in Callers : DiscEvent(t)
    \/ \E t \in Callers : Rpc(t)
    \/ \E t \in Callers : ExLock(t)
    \/ \E t \in Callers : ExRecv(t)
    \/ \E t \in Callers : EnableListen(t)
    \/ \E t \in Callers : ElPort(t)
    \/ \E t \in Callers : ElSpawn(t)
    \/ \E t \in Callers : DisableListen(t)
    \/ \E l \in Listeners : ListenerStart(l)
    \/ \E l \in Listeners : ListenerConnect(l)
    \/ \E l \in Listeners : ListenerRecv(l)
    \/ \E l \in Listeners : ListenerCheck(l)

Spec == Init /\ [][Next]_vars

\* the client of src/main.rs, with the listener's frames recorded: one thread
\* that calls, in this order, init(port, true, true) with a port whose successor
\* is a port, connect_cmd_socket, is_login, enable_listen and disable_listen
RecvInit == Init /\ threads = 1

RecvNext ==
    \/ \E t \in Callers, p \in PortInputs :
          nCalls = 0 /\ p # 0 /\ ~Overflows(p) /\ InitLoad(t, p, TRUE, TRUE)
    \/ \E t \in Callers : InitLock(t)
    \/ \E t \in Callers : nCalls = 1 /\ ConnectCmdSocket(t)
    \/ \E t \in Callers : ConnLock(t)
    \/ \E t \in Callers : nCalls = 2 /\ Rpc(t)
    \/ \E t \in Callers : nCalls = 3 /\ EnableListen(t)
    \/ \E t \in Callers : ElPort(t)
    \/ \E t \in Callers : ExLock(t)
    \/ \E t \in Callers : ExRecv(t)
    \/ \E t \in Callers : ElSpawn(t)
    \/ \E t \in Callers : nCalls = 4 /\ DisableListen(t)
    \/ \E l \in Listeners : ListenerStart(l)
    \/ \E l \in Listeners : ListenerConnect(l)
    \/ \E l \in Listeners : ListenerRecvLogged(l)
    \/ \E l \in Listeners : ListenerRecvEnd(l)
    \/ \E l \in Listeners : ListenerCheck(l)

RecvSpec == RecvInit /\ [][RecvNext]_vars

\* the system with a client that calls init with non-zero ports only
SessionNext ==
    \/ \E t \in Callers, p \in PortInputs, d \in BOOLEAN, a \in BOOLEAN :
          p # 0 /\ InitLoad(t, p, d, a)
    \/ \E t \in Callers : InitLock(t)
    \/ \E t \in Callers : Uninit(t)
    \/ \E t \in Callers, a \in BOOLEAN : Drop(t, a)
    \/ \E t \in Callers : UninitDisconnect(t)
    \/ \E t \in Callers : UninitDisableListen(t)
    \/ \E t \in Callers : UninitDestroy(t)
    \/ \E t \in Callers : ConnectCmdSocket(t)
    \/ \E t \in Callers : ConnLock(t)
    \/ \E t \in Callers : DisconnectCmdSocket(t)
    \/ \E t \in Callers : DiscEvent(t)
    \/ \E t \in Callers : Rpc(t)
    \/ \E t \in Callers : ExLock(t)
    \/ \E t \in Callers : ExRecv(t)
    \/ \E t \in Callers : EnableListen(t)
    \/ \E t \in Callers : ElPort(t)
    \/ \E t \in Callers : ElSpawn(t)
    \/ \E t \in Callers : DisableListen(t)
    \/ \E l \in Listeners : ListenerStart(l)
    \/ \E l \in Listeners : ListenerConnect(l)
    \/ \E l \in Listeners : ListenerRecv(l)
    \/ \E l \in Listeners : ListenerCheck(l)

SessionSpec == Init /\ [][SessionNext]_vars

\* the event bus alone: threads that emit events while callbacks are
\* registered and unregistered
CallbackNext ==
    \/ \E c \in Callbacks : RegisterEventCallback(c)
    \/ UnregisterEventCallback
    \/ \E e \in Emitters : SendEventRead(e)
    \/ \E e \in Emitters : SendEventInvoke(e)
    \/ \E e \in Emitters : SendEventReturn(e)

CallbackSpec == Init /\ [][CallbackNext]_vars

TypeOK ==
    /\ liveAuto \in BOOLEAN
    /\ slot \in Callbacks \cup {NoCallback}
    /\ lastReg \in Callbacks \cup {NoCallback}
    /\ dpc \in [Emitters -> {"idle", "got", "in"}]
    /\ got \in [Emitters -> Callbacks \cup {NoCallback}]
    /\ cbLock \in [Callbacks -> Emitters \cup {NoThread}]
    /\ invoked \in [Callbacks -> 0..MaxEvents]
    /\ nSent \in 0..MaxEvents
    /\ lastCall \in [cb : Callbacks \cup {NoCallback}, slot : Callbacks \cup {NoCallback}]
    /\ sdkLib \in {"unset", "no_symbol", "good"}
    /\ nLoad \in 0..(MaxCalls + 1)
    /\ sdkUp \in BOOLEAN
    /\ loaded \in BOOLEAN
    /\ cmdPort \in PortInputs
    /\ cmdSocket \in {NoSocket} \cup PortInputs
    /\ msgPort \in {WrapAdd1(p) : p \in PortInputs} \cup {0}
    /\ portLock \in Callers \cup {NoThread}
    /\ sockLock \in Callers \cup {NoThread}
    /\ msgLock \in Callers \cup {NoThread}
    /\ recvGuard \in Listeners \cup {NoThread}
    /\ threads \in Callers
    /\ nCalls \in 0..CallBudget
    /\ nInit \in 0..nCalls
    /\ nDestroy \in 0..nInit
    /\ stopReq \subseteq Listeners
    /\ \A a \in BOOLEAN : handles[a] \in 0..nInit
    /\ Len(rx) <= MaxFrames /\ Len(msgs) <= Len(rx)
    /\ Len(pending) <= 1

\* listener threads past the MSG_RECEIVING.try_lock() and not yet returned
GuardHolders == {l \in Listeners : lpc[l] \in {"connect", "recv", "check"}}

\* caller thread t takes the step at position p of its operation
Leaves(t, p) == pc[t] = p /\ pc'[t] # p

\* caller thread t calls operation o (the call is the operation's first step)
Calls(t, o) ==
    /\ pc[t] = "idle" /\ nCalls' = nCalls + 1
    /\ \/ pc'[t] # "idle" /\ op'[t] = o
       \/ pc'[t] = "idle" /\ ret'.who = t /\ ret'.op = o

\* caller thread t returns r to the client in this step
Returns(t, r) ==
    /\ pc[t] # "idle" \/ nCalls' = nCalls + 1
    /\ pc'[t] = "idle" /\ ret'.who = t /\ ret'.res = r

\* ------------------------------------------------------------ properties

\* C1: after uninit() returns from an initialized state, every process-state
\* field is at its sentinel: cmdPort = 0, no command socket, msgPort = 0 - also
\* when a listener was enabled at the call.  Stated for a client that calls from
\* one thread, where nothing else can touch the fields while uninit runs.
UninitResetsProcessState ==
    [][\A t \in Callers :
         (threads = 1 /\ Leaves(t, "destroy") /\ pc'[t] = "idle")
            => (cmdPort' = 0 /\ cmdSocket' = NoSocket /\ msgPort' = 0)]_vars

\* C2: uninit() is idempotent: the native destroy entry point is called, and
\* SdkDestroyed raised, at most once per initialized session (every teardown
\* ends a session that a successful init began and leaves cmdPort = 0), and an
\* uninit() that finds cmdPort = 0 changes no state, raises no event and
\* returns normally.
UninitIdempotent ==
    /\ [](/\ ev["SdkDestroyed"] = nDestroy
          /\ nDestroy + (IF cmdPort # 0 THEN 1 ELSE 0) <= ev["SdkInited"])
    /\ [][nDestroy' # nDestroy
            => (cmdPort # 0 /\ cmdPort' = 0 /\ nDestroy' = nDestroy + 1)]_vars
    /\ [][\A t \in Callers :
            (Calls(t, "uninit") /\ cmdPort = 0)
               => (Returns(t, "ok") /\ UNCHANGED shared)]_vars

\* C2 witness: a session was torn down once and a later uninit() was a no-op
UninitTwiceWitness ==
    \E t \in Callers :
        /\ ret = [who |-> t, op |-> "uninit", res |-> "ok"] /\ pc[t] = "idle"
        /\ nCalls = 3 /\ ev["SdkInited"] = 1 /\ nDestroy = 1 /\ cmdPort = 0 /\ threads = 1

\* C3: init called while cmdPort # 0 returns the already-initialized error for
\* every port, debug flag and auto-clean flag, and changes nothing: cmdPort
\* keeps its value, the native init is not called, no event is raised.
InitRejectedWhenInited ==
    /\ [](cmdPort # 0 => loaded)
    /\ [][\A t \in Callers :
            (Calls(t, "init") /\ cmdPort # 0)
               => (pc'[t] = "init_lock" /\ UNCHANGED shared)]_vars
    /\ [][\A t \in Callers :
            (Leaves(t, "init_lock") /\ cmdPort # 0)
               => (Returns(t, "err_already_inited") /\ UNCHANGED shared)]_vars

\* C3 witness: an init was rejected while a session is open
InitRejectedWitness ==
    \E t \in Callers :
        /\ ret = [who |-> t, op |-> "init", res |-> "err_already_inited"] /\ pc[t] = "idle"
        /\ cmdPort # 0 /\ nInit = 1


\* caller threads that took the command socket out of its slot in
\* disconnect_cmd_socket and have not yet raised the event for it
Disconnecting == {t \in Callers : pc[t] = "disc_event"}

\* C4: a transport error (a failed send, a failed or timed-out receive) during
\* a command exchange removes the stored socket, raises CmdSocketDisconnected
\* exactly once for that connection (every connection ever stored has one such
\* event when it is gone, so a later disconnect_cmd_socket raises none), and
\* returns the error; from then on every RPC fails at once with "disconnected"
\* until a connect_cmd_socket has succeeded.
TransportErrorDropsSocket ==
    /\ [](ev["CmdSocketConnected"]
            = ev["CmdSocketDisconnected"] + Cardinality(Disconnecting)
              + (IF cmdSocket # NoSocket THEN 1 ELSE 0))
    /\ [][\A t \in Callers :
            Returns(t, "err_transport")
               => (/\ cmdSocket # NoSocket /\ cmdSocket' = NoSocket
                   /\ ev' = SendEvent(ev, "CmdSocketDisconnected"))]_vars
    /\ [][\A t \in Callers :
            (Calls(t, "disconnect") /\ cmdSocket = NoSocket)
               => (Returns(t, "ok") /\ UNCHANGED shared)]_vars
    /\ [][\A t \in Callers :
            (Calls(t, "rpc") /\ cmdSocket = NoSocket)
               => Returns(t, "err_disconnected")]_vars
    /\ [][(cmdSocket = NoSocket /\ cmdSocket' # NoSocket)
            => \E t \in Callers : pc[t] = "conn_lock" /\ Returns(t, "ok")]_vars

\* C4 witness: one thread's exchange failed in transport and the RPC made next,
\* by another thread, was refused as disconnected; one connection, one event
TransportErrorWitness ==
    \E t \in Callers :
        /\ ret = [who |-> t, op |-> "rpc", res |-> "err_disconnected"]
        /\ nCalls = 4 /\ nInit = 1 /\ nDestroy = 0
        /\ \A u \in Callers : pc[u] = "idle"
        /\ ev["CmdSocketConnected"] = 1 /\ ev["CmdSocketDisconnected"] = 1
        /\ ev["MsgSocketConnected"] = 0

\* C5: command exchanges are mutually exclusive - at most one thread is between
\* its send and its receive, it holds the CMD_SOCKET mutex, and the only
\* unanswered request on the connection is its own - so the response it reads
\* answers its own request.
ExchangesExclusive ==
    \A t \in Callers :
        pc[t] = "ex_recv"
           => (/\ sockLock = t
               /\ pending = <<t>>
               /\ \A u \in Callers \ {t} : pc[u] # "ex_recv")

\* C5 witness: one thread is inside an exchange while another has called an
\* operation that needs the CMD_SOCKET mutex and waits for it
ExchangeContendedWitness ==
    \E t \in Callers, u \in Callers :
        /\ pc[t] = "ex_recv" /\ op[t] = "rpc"
        /\ pc[u] \in {"ex_lock", "conn_lock", "disc_take"}

\* C6: an RPC made while no command socket is stored returns an error without
\* sending or receiving anything; the socket slot, cmdPort and msgPort keep
\* their values and no event is raised.
RpcWithoutSocketFails ==
    /\ [][\A t \in Callers :
            (Calls(t, "rpc") /\ cmdSocket = NoSocket)
               => (Returns(t, "err_disconnected") /\ UNCHANGED shared)]_vars
    /\ [][\A t \in Callers :
            (Leaves(t, "ex_lock") /\ cmdSocket = NoSocket)
               => (/\ UNCHANGED <<cmdSocket, cmdPort, msgPort, pending, sockLock, ev>>
                   /\ \/ Returns(t, "err_disconnected")
                      \/ InUninit(op[t]) /\ pc'[t] = "destroy")]_vars

\* C6 witness: enable_listen was refused because no command socket is stored
RpcWithoutSocketWitness ==
    \E t \in Callers :
        /\ ret = [who |-> t, op |-> "enable", res |-> "err_disconnected"] /\ pc[t] = "idle"
        /\ cmdPort # 0 /\ cmdSocket = NoSocket /\ ev["CmdSocketConnected"] = 0

\* C7: at most one listener thread is past the acquisition of the receiving
\* guard, and it is the guard's holder; a listener thread started while the
\* guard is held returns at once - no connection, no receive, no event.
OneListenerPastGuard ==
    /\ [](/\ Cardinality(GuardHolders) <= 1
          /\ \A l \in GuardHolders : recvGuard = l)
    /\ [][\A l \in Listeners :
            (lpc[l] = "start" /\ lpc'[l] # "start" /\ recvGuard # NoThread)
               => (lpc'[l] = "exit_busy" /\ UNCHANGED <<recvGuard, ev>>)]_vars
    /\ [][\A l \in Listeners : lpc[l] = "exit_busy" => lpc'[l] = "exit_busy"]_vars

\* C7 witness: a second listener found the guard held by a receiving one
ListenerBusyWitness ==
    \E l \in Listeners, k \in Listeners :
        /\ lpc[l] = "exit_busy"
        /\ lpc[k] = "recv" /\ recvGuard = k


\* listener threads that have returned after raising MsgSocketDisconnected
Closed == {l \in Listeners : lpc[l] \in {"exit_disabled", "exit_error"}}

\* C8 (as written): once disable_listen() has returned true with a listener
\* active, that listener terminates at its next receive timeout, whatever
\* operations are called afterwards.
ListenerStopsAfterDisable ==
    [][\A l \in Listeners :
         (l \in stopReq /\ lpc[l] = "check" /\ lpc'[l] # "check")
            => lpc'[l] = "exit_disabled"]_vars

\* C8 (amended): a listener that reads msgPort after a receive timeout
\* terminates there exactly when it reads 0 - so after a disable_listen() that
\* returned true it terminates at its next timeout provided no enable_listen()
\* has set msgPort again by then - and a terminating listener raises
\* MsgSocketDisconnected exactly once, releases the guard and stays terminated.
ListenerStopsWhenPortStillZero ==
    /\ [][\A l \in Listeners :
            (lpc[l] = "check" /\ lpc'[l] # "check")
               => IF msgPort = 0
                  THEN /\ lpc'[l] = "exit_disabled"
                       /\ ev' = SendEvent(ev, "MsgSocketDisconnected")
                       /\ recvGuard = l /\ recvGuard' = NoThread
                  ELSE lpc'[l] = "recv" /\ UNCHANGED <<ev, recvGuard>>]_vars
    /\ [](ev["MsgSocketDisconnected"] = Cardinality(Closed))
    /\ [][\A l \in Closed : lpc'[l] = lpc[l]]_vars

\* C8 witness: a listener that was active when a disable_listen() returned true
\* has terminated at a timeout, with its one MsgSocketDisconnected
ListenerStoppedWitness ==
    \E l \in stopReq, t \in Callers :
        /\ lpc[l] = "exit_disabled"
        /\ ret = [who |-> t, op |-> "disable", res |-> "true"] /\ pc[t] = "idle"
        /\ ev["MsgSocketConnected"] = 1 /\ ev["MsgSocketDisconnected"] = 1

\* C9 (as written): whenever msgPort # 0, exactly one listener thread holds the
\* receiving guard.
ListenerHeldWhilePortSet ==
    msgPort # 0 => \E l \in Listeners : recvGuard = l /\ GuardHolders = {l}

\* C9 (amended): whenever msgPort # 0, at most one listener thread holds the
\* receiving guard - possibly none: the thread enable_listen spawned has not
\* started yet, could not connect, or left its loop on a receive error.
AtMostOneListenerWhilePortSet ==
    msgPort # 0
       => /\ Cardinality(GuardHolders) <= 1
          /\ recvGuard = NoThread <=> GuardHolders = {}
          /\ \A l \in GuardHolders : recvGuard = l /\ lport[l] # 0

\* C9 witness: msgPort is set and a connected listener holds the guard
ListenerHeldWitness ==
    \E l \in Listeners :
        /\ msgPort # 0 /\ recvGuard = l /\ lpc[l] = "recv" /\ lport[l] = msgPort
        /\ \E k \in Listeners : lpc[k] = "exit_busy"

\* C10: uninit() completes in every interleaving with the other operations:
\* there is no state in which it waits for a lock whose holder waits for a lock
\* that uninit itself holds.
UninitNeverWaitsForever ==
    \A t \in Callers, u \in Callers :
        ~(/\ op[t] = "uninit" /\ pc[t] = "dl_lock" /\ portLock = t
          /\ msgLock = u /\ pc[u] = "el_port")


\* the order of the steps of uninit: from each position, the positions that
\* may follow it
UninitOrder ==
    {<<"disc_take", "disc_event">>, <<"disc_take", "dl_lock">>,
     <<"disc_event", "dl_lock">>,
     <<"dl_lock", "ex_lock">>, <<"dl_lock", "destroy">>,
     <<"ex_lock", "ex_recv">>, <<"ex_lock", "destroy">>, <<"ex_recv", "destroy">>,
     <<"destroy", "idle">>}

DisableListenContract ==
    /\ [][\A t \in Callers :
            Calls(t, "disable")
               => IF msgPort = 0
                  THEN Returns(t, "false") /\ UNCHANGED shared
                  ELSE /\ pc'[t] = "ex_lock" /\ msgLock' = t
                       /\ UNCHANGED <<msgPort, cmdSocket, pending, ev>>]_vars
    /\ [][\A t \in Callers :
            (op[t] = "disable" /\ pc[t] # "idle")
               => /\ msgLock = t /\ msgPort # 0
                  /\ Returns(t, "true") => pc[t] = "ex_recv" /\ msgPort' = 0
                  /\ ~Returns(t, "true") => msgPort' = msgPort
                  /\ pc'[t] = "idle"
                       => /\ msgLock' = NoThread
                          /\ ret'.res \in {"true", "err_no_payload", "err_decode",
                                          "err_transport", "err_disconnected"}
                          /\ ret'.res = "err_disconnected" => pc[t] = "ex_lock"]_vars

\* C12 witness: the disable RPC was answered without a payload - disable_listen
\* returned the error and msgPort is still set
DisableNoPayloadWitness ==
    \E t \in Callers :
        /\ ret = [who |-> t, op |-> "disable", res |-> "err_no_payload"] /\ pc[t] = "idle"
        /\ msgPort # 0 /\ cmdSocket # NoSocket /\ msgLock = NoThread


\* C13: enable_listen() sends the enable RPC only when it finds msgPort = 0;
\* every call that returns success spawns exactly one new listener thread,
\* bound to the msgPort the call recorded or found (also when it was already
\* set and nothing was sent); a call that returns an error leaves msgPort as it
\* was and spawns nothing; listener threads are spawned by nothing else.
EnableListenContract ==
    /\ [][\A t \in Callers :
            Calls(t, "enable")
               => /\ UNCHANGED <<cmdPort, cmdSocket, msgPort, pending, ev, lpc, lport>>
                  /\ IF msgPort = 0
                     THEN pc'[t] = "el_port" /\ msgLock' = t
                     ELSE /\ pc'[t] = "el_spawn" /\ arg'[t].port = msgPort
                          /\ UNCHANGED msgLock]_vars
    /\ [][\A t \in Callers :
            (op[t] = "enable" /\ pc[t] # "el_spawn" /\ pc'[t] = "el_spawn")
               => /\ pc[t] = "ex_recv" /\ msgPort = 0
                  /\ msgPort' = arg'[t].port
                  /\ arg'[t].port = WrapAdd1(arg[t].port)]_vars
    /\ [][\A t \in Callers :
            (op[t] = "enable" /\ pc[t] # "idle" /\ pc'[t] = "idle")
               => IF Returns(t, "ok")
                  THEN /\ pc[t] = "el_spawn"
                       /\ msgPort' = msgPort
                       /\ \E l \in Listeners :
                            /\ lpc[l] = "unborn" /\ lpc'[l] = "start"
                            /\ lport'[l] = arg[t].port
                            /\ \A k \in Listeners \ {l} : lpc'[k] = lpc[k]
                  ELSE /\ msgPort' = msgPort /\ lpc' = lpc
                       /\ ret'.res \in {"err_not_inited", "err_no_payload", "err_decode",
                                       "err_transport", "err_disconnected"}]_vars
    /\ [][\A l \in Listeners :
            (lpc[l] = "unborn" /\ lpc'[l] # "unborn")
               => \E t \in Callers : op[t] = "enable" /\ Returns(t, "ok")]_vars

\* C13 witness: a second enable_listen() found msgPort set, sent nothing (the
\* command channel has seen one exchange only) and spawned a second thread
EnableAgainWitness ==
    \E t \in Callers :
        /\ ret = [who |-> t, op |-> "enable", res |-> "ok"] /\ pc[t] = "idle"
        /\ nCalls = 4 /\ nInit = 1 /\ threads = 1
        /\ msgPort # 0
        /\ \A l \in 1..2 : lpc[l] # "unborn" /\ lport[l] = msgPort


\* a received frame that is well-formed and carries the message payload variant
IsMessageFrame(f) == f.kind = "wxmsg"

\* the contents of the message frames among the frames s, in order
MessagesOf(s) ==
    LET w == SelectSeq(s, IsMessageFrame)
    IN  [i \in 1..Len(w) |-> w[i].body]

\* C14: for every sequence of frames the active listener receives, the
\* MsgReceived events are exactly the well-formed frames that carry the message
\* payload variant - one event each, in the order received, with that frame's
\* payload; a malformed frame or one with another payload raises no event and
\* neither closes the socket nor ends the loop.
FramesDelivered ==
    /\ [](msgs = MessagesOf(rx) /\ ev["MsgReceived"] = Len(msgs))
    /\ [][rx' # rx
            => /\ \E f \in Frames : rx' = Append(rx, f)
               /\ \E l \in Listeners :
                    /\ lpc[l] = "recv" /\ recvGuard = l
                    /\ ~IsMessageFrame(rx'[Len(rx')])
                         => UNCHANGED <<ev, msgs, lpc, recvGuard>>
                    /\ IsMessageFrame(rx'[Len(rx')])
                         => /\ msgs' = Append(msgs, rx'[Len(rx')].body)
                            /\ ev' = SendEvent(ev, "MsgReceived")
                            /\ UNCHANGED <<lpc, recvGuard>>]_vars

\* C14 witness: a malformed frame, then two message frames with different
\* contents: two events, in the order received; the listener is still receiving
FramesDeliveredWitness ==
    /\ Len(rx) = 3
    /\ rx[1].kind = "malformed" /\ rx[2].kind = "wxmsg" /\ rx[3].kind = "wxmsg"
    /\ rx[2].body = "b" /\ rx[3].body = "a"
    /\ msgs = <<"b", "a">>
    /\ \E l \in Listeners : lpc[l] = "recv"


\* C15: when the native init returns a non-zero result, init returns an error
\* and leaves the state as it was - cmdPort still 0, no SdkInited event, no
\* CleanupHandle handed out, the native SDK not initialised - so that a later
\* init is not rejected as already initialized: that rejection happens only
\* while cmdPort is non-zero.
InitFailureLeavesState ==
    [][\A t \in Callers :
         /\ (pc[t] = "init_lock" /\ pc'[t] = "idle" /\ nInit' = nInit + 1 /\ ~sdkUp')
              => Returns(t, "err_init_failed")
         /\ Returns(t, "err_init_failed")
              => /\ cmdPort = 0 /\ ~AlreadyInited(cmdPort')
                 /\ nInit' = nInit + 1
                 /\ UNCHANGED <<cmdPort, cmdSocket, msgPort, ev, handles, sdkUp, loaded,
                                nDestroy, portLock>>
         /\ Returns(t, "err_already_inited") => cmdPort # 0 /\ nInit' = nInit]_vars

\* C15 witness: the native init failed once, and the init called after it
\* succeeded
InitAfterFailureWitness ==
    /\ ret.op = "init" /\ ret.res = "ok"
    /\ nInit = 2 /\ nDestroy = 0
    /\ ev["SdkInited"] = 1 /\ cmdPort # 0 /\ sdkUp


\* C16: over all load_sdk_dll calls (init's first step) of a process in which
\* the library and its symbols can be found, exactly one returns true - the
\* one made with the flag still unset - and all others return false; the
\* library load executes exactly once; so init emits SdkDllLoaded at most once.
LoadsExactlyOnce ==
    /\ [](/\ ev["SdkDllLoaded"] <= 1
          /\ sdkLib = "unset" => ~loaded /\ nLoad = 0 /\ ev["SdkDllLoaded"] = 0
          /\ sdkLib = "good" => loaded /\ nLoad = 1 /\ ev["SdkDllLoaded"] = 1)
    /\ [][\A t \in Callers :
            Calls(t, "init") /\ sdkLib' = "good"
              => /\ pc'[t] = "init_lock"
                 /\ IF loaded
                    THEN UNCHANGED <<loaded, sdkLib, nLoad, ev>>
                    ELSE /\ loaded' /\ nLoad' = nLoad + 1
                         /\ ev' = SendEvent(ev, "SdkDllLoaded")]_vars

\* C16 witness: two calls of init went through load_sdk_dll with the library
\* found - the second while the first was still inside init - with one load
\* and one SdkDllLoaded event
LoadedOnceWitness ==
    /\ \A t \in Callers : pc[t] = "init_lock"
    /\ sdkLib = "good" /\ nLoad = 1 /\ ev["SdkDllLoaded"] = 1


\* invocations of all callbacks up to callback n
RECURSIVE InvokedUpTo(_)
InvokedUpTo(n) == IF n = 0 THEN 0 ELSE invoked[n] + InvokedUpTo(n - 1)

\* C17: the slot holds the callback of the last register/unregister call that
\* returned; a send_event that starts with callback B registered invokes B and
\* no other, one that starts after unregister invokes nothing; every
\* send_event invokes at most one callback, once, on its own thread; and a
\* dispatch that has read a callback invokes that one even when the slot was
\* replaced in between.
CallbackDispatch ==
    /\ [](/\ slot = lastReg
          /\ InvokedUpTo(MaxCallbacks) + Cardinality({e \in Emitters : dpc[e] = "got"})
               <= nSent
          /\ \A e \in Emitters : dpc[e] = "idle" <=> got[e] = NoCallback)
    /\ [][/\ nSent' = nSent + 1
               => IF lastReg = NoCallback
                  THEN UNCHANGED <<dpc, got, invoked, lastCall>>
                  ELSE /\ \E e \in Emitters :
                            /\ dpc[e] = "idle"
                            /\ dpc' = [dpc EXCEPT ![e] = "got"]
                            /\ got' = [got EXCEPT ![e] = lastReg]
                       /\ UNCHANGED <<invoked, lastCall>>
          /\ invoked' # invoked
               => \E e \in Emitters :
                    /\ dpc[e] = "got" /\ dpc' = [dpc EXCEPT ![e] = "in"]
                    /\ invoked' = [invoked EXCEPT ![got[e]] = @ + 1]
                    /\ lastCall'.cb = got[e]
          /\ \A e \in Emitters :
               /\ dpc[e] = "got" => got'[e] = got[e] /\ dpc'[e] \in {"got", "in"}
               /\ dpc[e] = "got" /\ dpc'[e] = "in" => invoked'[got[e]] = invoked[got[e]] + 1
               /\ dpc[e] = "in" => dpc'[e] \in {"in", "idle"}]_vars

\* C17 witness: a dispatch read callback 1, callback 2 was registered and
\* invoked by a later send_event, and then the first dispatch invoked callback 1
OldCallbackCompletesWitness ==
    /\ lastCall = [cb |-> 1, slot |-> 2]
    /\ lastReg = 2
    /\ invoked = [c \in Callbacks |-> 1]


\* C18: in every reachable state msgPort # 0 implies cmdPort # 0 and
\* msgPort = cmdPort + 1, so that no listener is started on a port derived
\* from the command port of a previous session.
MsgPortFollowsCmdPort ==
    msgPort # 0 => cmdPort # 0 /\ msgPort = cmdPort + 1

\* C19: in every reachable state a stored command socket implies cmdPort # 0
\* and the socket is connected to the current cmdPort.
SocketOnCurrentPort ==
    cmdSocket # NoSocket => cmdPort # 0 /\ cmdSocket = cmdPort

\* C20: for every port argument, an init that returns success leaves the
\* process initialised with cmdPort # 0 (so that the next init is rejected and
\* the next uninit reaches the native destroy).
InitSuccessSetsPort ==
    [][\A t \in Callers :
         (op[t] = "init" /\ Returns(t, "ok")) => cmdPort' # 0]_vars


\* C21: for every command port in 1..65535 that enable_listen read, a
\* successful enable_listen starting from msgPort = 0 records
\* msgPort = cmdPort + 1 without overflow: the call does not panic, msgPort is
\* non-zero and the listener is given port cmdPort + 1.
EnableRecordsNextPort ==
    [][\A t \in Callers :
         (op[t] = "enable" /\ pc[t] \in {"ex_lock", "ex_recv"} /\ arg[t].port \in 1..(U16 - 1))
           => /\ pc'[t] # "panicked"
              /\ pc'[t] = "el_spawn"
                   => /\ msgPort' = arg[t].port + 1
                      /\ msgPort' # 0
                      /\ arg'[t].port = arg[t].port + 1]_vars


\* C22: CmdSocketConnected and CmdSocketDisconnected are delivered in strict
\* alternation beginning with CmdSocketConnected - after every event the
\* connects delivered are as many as the disconnects or one more - and once
\* all calls have returned the last of them tells whether a socket is stored.
CmdSocketEventsAlternate ==
    /\ ev["CmdSocketConnected"] - ev["CmdSocketDisconnected"] \in {0, 1}
    /\ (\A t \in Callers : pc[t] = "idle")
         => (cmdSocket # NoSocket
               <=> ev["CmdSocketConnected"] = ev["CmdSocketDisconnected"] + 1)


\* C23: with non-zero ports given to init, in every interleaving SdkInited and
\* SdkDestroyed are delivered in strict alternation beginning with SdkInited,
\* successful native inits and native destroys alternate one to one, and
\* cmdPort # 0 holds exactly between an SdkInited and the next SdkDestroyed.
SessionsAlternate ==
    /\ [](/\ ev["SdkInited"] - ev["SdkDestroyed"] \in {0, 1}
          /\ cmdPort # 0 <=> ev["SdkInited"] = ev["SdkDestroyed"] + 1
          /\ sdkUp <=> cmdPort # 0
          /\ nDestroy = ev["SdkDestroyed"])
    /\ [][/\ (nInit' = nInit + 1 /\ sdkUp')
               => ~sdkUp /\ ev' = SendEvent(ev, "SdkInited") /\ nDestroy' = nDestroy
          /\ nDestroy' = nDestroy + 1
               => sdkUp /\ ~sdkUp' /\ ev' = SendEvent(ev, "SdkDestroyed") /\ nInit' = nInit
          /\ ev'["SdkInited"] # ev["SdkInited"] => nInit' = nInit + 1 /\ sdkUp'
          /\ ev'["SdkDestroyed"] # ev["SdkDestroyed"] => nDestroy' = nDestroy + 1]_vars

\* C23 witness: a second session: init, uninit and init again have succeeded
SecondSessionWitness ==
    /\ ev["SdkInited"] = 2 /\ ev["SdkDestroyed"] = 1
    /\ cmdPort # 0 /\ sdkUp /\ nDestroy = 1


\* C24: MsgSocketConnected and MsgSocketDisconnected are delivered in strict
\* alternation beginning with MsgSocketConnected - the one still open belongs
\* to the listener inside its receive loop; every MsgReceived is delivered
\* while one is open; and a listener thread that finds the guard taken or
\* fails to connect delivers no event - for any number of enable_listen calls
\* and listener threads.
MsgSocketEventsAlternate ==
    /\ [](/\ ev["MsgSocketConnected"] - ev["MsgSocketDisconnected"] \in {0, 1}
          /\ ev["MsgSocketConnected"] = ev["MsgSocketDisconnected"] + 1
               <=> \E l \in Listeners : lpc[l] \in {"recv", "check"}
          /\ Cardinality(Receiving) <= 1)
    /\ [][/\ ev'["MsgReceived"] # ev["MsgReceived"]
               => /\ ev["MsgSocketConnected"] = ev["MsgSocketDisconnected"] + 1
                  /\ ev'["MsgSocketConnected"] = ev["MsgSocketConnected"]
                  /\ ev'["MsgSocketDisconnected"] = ev["MsgSocketDisconnected"]
          /\ \A l \in Listeners :
               (lpc'[l] # lpc[l] /\ lpc'[l] \in {"exit_busy", "exit_noconn"})
                 => UNCHANGED ev]_vars

\* C24 witness: one listener connected, delivered a message and closed; another
\* one found the guard taken and left without an event
ListenerEventsWitness ==
    /\ ev["MsgSocketConnected"] = 1 /\ ev["MsgSocketDisconnected"] = 1
    /\ ev["MsgReceived"] = 1
    /\ \E l \in Listeners : lpc[l] = "exit_busy"


\* C25: an auto-clean CleanupHandle tears down only the session of the init
\* that returned it: dropped while the live session was started by a later
\* init (one that returned a handle without auto-clean, the earlier session
\* having been ended by an explicit uninit), it leaves the live session's
\* cmdPort, command socket and native SDK untouched.
StaleDropLeavesSession ==
    [][\A t \in Callers :
         (/\ Calls(t, "drop")
          /\ handles'[TRUE] = handles[TRUE] - 1
          /\ cmdPort # 0 /\ ~liveAuto)
           => Returns(t, "ok") /\ UNCHANGED <<cmdPort, cmdSocket, sdkUp, portLock>>]_vars

====
